---- MODULE Spec2Model ----
(***************************************************************************)
(* Transaction lifecycle engine of the platform: the ABCI validator node   *)
(* (components/abci_validator_node), the HTTP submission API               *)
(* (components/submission_api), the submission server and ledger they      *)
(* drive, and the client-side anonymous-transfer builder (finutils).       *)
(***************************************************************************)
EXTENDS Integers, Sequences, FiniteSets, TLC

(***************************************************************************)
(* Bounds of the model.                                                    *)
(***************************************************************************)
\* block_capacity handed to SubmissionServer::new
BlockCapacity == 2
\* blocks the model lets the ledger commit
MaxBlocks == 3
\* width of the seq_id window a transaction stays valid in
SeqIdWindow == 1

(***************************************************************************)
(* Transactions.  A transaction is one of a few shapes (base) built for a  *)
(* ledger height (seq_id).                                                 *)
(*   DefIss    DefineAsset(AAAA) + IssueAsset(AAAA) with two outputs       *)
(*   DefB      DefineAsset(BBBB)                                           *)
(*   XfrA/XfrB TransferAsset consuming TxoSID 0, one output each           *)
(*   Bar2Abar  BarToAbar consuming TxoSID 1, one anonymous output          *)
(*   AnonA/B   TransferAnonAsset spending the ABAR with ATxoSID 0          *)
(*   Xfr999    TransferAsset consuming the non-existent TxoSID 999         *)
(*   BadSig    a transaction whose signature does not verify               *)
(***************************************************************************)
Bases == {"DefIss", "DefB", "XfrA", "XfrB", "Bar2Abar", "AnonA", "AnonB", "Xfr999", "BadSig"}

AnonBases == {"AnonA", "AnonB"}

\* the ledger height each transaction was built at (its seq_id): the
\* definition and issuance first, the spends of its outputs one block later,
\* the spends of the ABAR one block after that
BuiltAt(base) ==
    CASE base \in {"XfrA", "XfrB", "Bar2Abar"} -> 1
      [] base \in AnonBases -> 2
      [] OTHER -> 0

Txs == {[base |-> b, seq_id |-> BuiltAt(b)] : b \in Bases}

NoTx == [base |-> "none", seq_id |-> 0]

Inputs(tx) ==
    CASE tx.base \in {"XfrA", "XfrB"} -> {0}
      [] tx.base = "Bar2Abar" -> {1}
      [] tx.base = "Xfr999" -> {999}
      [] OTHER -> {}

NumOutputs(tx) ==
    CASE tx.base = "DefIss" -> 2
      [] tx.base \in {"XfrA", "XfrB", "Xfr999"} -> 1
      [] OTHER -> 0

NumAbars(tx) == IF tx.base \in AnonBases \cup {"Bar2Abar"} THEN 1 ELSE 0

AbarInputs(tx) == IF tx.base \in AnonBases THEN {0} ELSE {}

\* nullifier(randomized key, amount, asset type, mt_leaf_uid): one per ABAR leaf
nullifier(atxo) == <<"nullifier", atxo>>

Nullifiers(tx) == {nullifier(a) : a \in AbarInputs(tx)}

Defines(tx) ==
    CASE tx.base = "DefIss" -> {"AAAA"}
      [] tx.base = "DefB" -> {"BBBB"}
      [] OTHER -> {}

\* TxnHandle: derived from the canonical serialization of the transaction
TxnHandleOf(tx) == <<"handle", tx.base, tx.seq_id>>

Handles == {TxnHandleOf(tx) : tx \in Txs}

\* the bytes the consensus host delivers: a serialized transaction or garbage
Encode(tx) == <<"bytes", tx.base, tx.seq_id>>

Garbage == <<"bytes", "garbage", 0>>

Bytes == {Encode(tx) : tx \in Txs} \cup {Garbage}

\* convert_tx: Some(tx) when the bytes deserialize, None (NoTx) otherwise
convert_tx(bytes) ==
    IF bytes[2] \in Bases
    THEN [base |-> bytes[2], seq_id |-> bytes[3]]
    ELSE NoTx

(***************************************************************************)
(* TxnStatus                                                               *)
(***************************************************************************)
NoStatus == [st |-> "None", sid |-> 0, outs |-> <<>>]

Pending == [st |-> "Pending", sid |-> 0, outs |-> <<>>]

Committed(sid, outs) == [st |-> "Committed", sid |-> sid, outs |-> outs]

Rejected == [st |-> "Rejected", sid |-> 0, outs |-> <<>>]

(***************************************************************************)
(* Threads and locks                                                       *)
(***************************************************************************)
HttpWorkers == {"http1", "http2"}

Threads == {"consensus", "query"} \cup HttpWorkers

NoThread == "none"

FreeLock == [writer |-> NoThread, readers |-> {}]

CanAcquire(lock, mode) ==
    IF mode = "write"
    THEN lock.writer = NoThread /\ lock.readers = {}
    ELSE lock.writer = NoThread

Acquire(lock, t, mode) ==
    IF mode = "write"
    THEN [lock EXCEPT !.writer = t]
    ELSE [lock EXCEPT !.readers = @ \cup {t}]

Release(lock, t) ==
    [writer |-> IF lock.writer = t THEN NoThread ELSE lock.writer,
     readers |-> lock.readers \ {t}]

Holds(lock, t) == lock.writer = t \/ t \in lock.readers

VARIABLES
    deployment,   \* which binary runs: the ABCI node or the submission API
    ledger,       \* LedgerState behind Arc<RwLock<..>> (committed state)
    block,        \* SubmissionServer: the block under construction
    txn_status,   \* SubmissionServer: TxnHandle -> TxnStatus
    in_commit,    \* SubmissionServer: between begin_commit and end_commit
    ledgerLock,   \* the RwLock around LedgerState
    serverLock,   \* the RwLock around SubmissionServer (web::Data)
    pc,           \* position of every thread
    built,        \* clients that have built their anonymous transfer
    resp,         \* the last response given
    crashed,      \* the process has panicked
    keep_hist,    \* the KEEP_HIST flag of the ledger store
    store,        \* ledger store with history: blocks, transactions, UTXO owners
    api_cache,    \* ApiCache of the ledger store
    chan,         \* the four staking history channels
    last_update,  \* outcome of the last update_api_cache
    builder,      \* the TransactionBuilder of the client
    cli,          \* the call the client makes, with its arguments and outcome
    sent          \* the transactions the client has handed to send_tx

\* the ledger store's API cache and what it projects
cacheVars == <<keep_hist, store, api_cache, chan, last_update>>

\* the submission pipeline
nodeVars == <<deployment, ledger, block, txn_status, in_commit, ledgerLock,
              serverLock, pc, built, resp>>

\* the client that builds and sends transactions
clientVars == <<builder, cli, sent>>

vars == <<nodeVars, crashed, cacheVars, clientVars>>

serverVars == <<block, txn_status, in_commit>>

(***************************************************************************)
(* LedgerState                                                             *)
(***************************************************************************)
\* LedgerState::test_ledger(): an empty ledger
test_ledger ==
    [utxos |-> {},
     spent_utxos |-> {},
     abars |-> {},
     nullifier_set |-> {},
     asset_types |-> {},
     block_commit_count |-> 0,
     next_txn_sid |-> 0,
     next_txo_sid |-> 0,
     next_atxo_sid |-> 0,
     transactions |-> <<>>]

get_asset_type(l, code) == code \in l.asset_types

get_block_commit_count(l) == l.block_commit_count

\* get_prng: a deterministic generator seeded from the ledger height
get_prng(l) == <<"prng", l.block_commit_count>>

Range(s) == {s[i] : i \in 1..Len(s)}

\* TxnEffect::compute_effect(prng, txn): depends on the transaction alone
compute_effect(prng, tx) ==
    [ok |-> tx.base # "BadSig",
     inputs |-> Inputs(tx),
     nullifiers |-> Nullifiers(tx),
     defines |-> Defines(tx)]

\* validation of an effect against the committed state
LedgerCheck(l, tx) ==
    CASE tx.seq_id > l.block_commit_count -> "StaleSeqId"
      [] tx.seq_id + SeqIdWindow < l.block_commit_count -> "StaleSeqId"
      [] tx \in Range(l.transactions) -> "DuplicateTxn"
      [] ~(Inputs(tx) \subseteq l.utxos) -> "InputsError"
      [] ~(AbarInputs(tx) \subseteq l.abars) -> "ProofInvalid"
      [] Nullifiers(tx) \cap l.nullifier_set # {} -> "DuplicateNullifier"
      [] Defines(tx) \cap l.asset_types # {} -> "AssetRulesViolated"
      [] OTHER -> "Ok"

BlockInputs(txns) == UNION {Inputs(t) : t \in Range(txns)}

BlockNullifiers(txns) == UNION {Nullifiers(t) : t \in Range(txns)}

BlockDefines(txns) == UNION {Defines(t) : t \in Range(txns)}

\* within-block conflict rules of the block builder
BlockCheck(txns, tx) ==
    CASE tx \in Range(txns) -> "DuplicateTxn"
      [] Inputs(tx) \cap BlockInputs(txns) # {} -> "DuplicateInput"
      [] Nullifiers(tx) \cap BlockNullifiers(txns) # {} -> "DuplicateNullifier"
      [] Defines(tx) \cap BlockDefines(txns) # {} -> "AssetRulesViolated"
      [] OTHER -> "Ok"

\* identifiers that start again from zero for every transaction
NewSids_restarting(first, n) == [i \in 1..n |-> i - 1]

\* n consecutive identifiers from the next free one
NewSids(first, n) == [i \in 1..n |-> first + i - 1]

\* apply one transaction of a finalized block to the store
apply_transaction(l, tx) ==
    [utxos |-> (l.utxos \ Inputs(tx))
                 \cup Range(NewSids(l.next_txo_sid, NumOutputs(tx))),
     spent_utxos |-> l.spent_utxos \cup Inputs(tx),
     abars |-> l.abars \cup Range(NewSids(l.next_atxo_sid, NumAbars(tx))),
     nullifier_set |-> l.nullifier_set \cup Nullifiers(tx),
     asset_types |-> l.asset_types \cup Defines(tx),
     block_commit_count |-> l.block_commit_count,
     next_txn_sid |-> l.next_txn_sid + 1,
     next_txo_sid |-> l.next_txo_sid + NumOutputs(tx),
     next_atxo_sid |-> l.next_atxo_sid + NumAbars(tx),
     transactions |-> Append(l.transactions, tx)]

\* finish_block: assigns TxnSIDs and TxoSIDs in block order and applies the
\* block; results[i] is the (TxnSID, outputs) of the i-th transaction
RECURSIVE finish_block(_, _, _)
finish_block(l, txns, results) ==
    IF txns = <<>>
    THEN [ledger |-> [l EXCEPT !.block_commit_count = @ + 1],
          results |-> results]
    ELSE finish_block(apply_transaction(l, Head(txns)), Tail(txns),
                      Append(results,
                             Committed(l.next_txn_sid,
                                       NewSids(l.next_txo_sid, NumOutputs(Head(txns))))))

(***************************************************************************)
(* SubmissionServer                                                        *)
(***************************************************************************)
NoBlock == [open |-> FALSE, txns |-> <<>>]

EmptyBlock == [open |-> TRUE, txns |-> <<>>]

\* a response; err is the error the handler received from the server, if any
Failure(op, code, body, err) == [op |-> op, code |-> code, body |-> body, err |-> err]

Response(op, code, body) == Failure(op, code, body, "")

NoResponse == Response("none", 0, "")

\* cache_transaction without the capacity check
CacheResult_unbounded(blk, l, tx) ==
    CASE ~blk.open -> "NoBlock"
      [] in_commit -> "CommitInProgress"
      [] ~compute_effect(get_prng(l), tx).ok -> "SignatureInvalid"
      [] LedgerCheck(l, tx) # "Ok" -> LedgerCheck(l, tx)
      [] OTHER -> BlockCheck(blk.txns, tx)

\* cache_transaction: "Ok" when the transaction is appended to blk, the
\* error otherwise
CacheResult(blk, l, tx) ==
    CASE ~blk.open -> "NoBlock"
      [] in_commit -> "CommitInProgress"
      [] Len(blk.txns) >= BlockCapacity -> "BlockFull"
      [] ~compute_effect(get_prng(l), tx).ok -> "SignatureInvalid"
      [] LedgerCheck(l, tx) # "Ok" -> LedgerCheck(l, tx)
      [] OTHER -> BlockCheck(blk.txns, tx)

\* the server after cache_transaction(tx) on block blk
cache_transaction(blk, tx) ==
    IF CacheResult(blk, ledger, tx) = "Ok"
    THEN /\ block' = [blk EXCEPT !.txns = Append(@, tx)]
         /\ txn_status' = [txn_status EXCEPT ![TxnHandleOf(tx)] = Pending]
    ELSE UNCHANGED <<block, txn_status>>

\* handle_transaction: opens a block when none is under construction
HandleBlock == IF block.open THEN block ELSE EmptyBlock

get_txn_status(h) == txn_status[h]

\* a block applies when each of its transactions is still valid against the store
RECURSIVE BlockApplies(_, _)
BlockApplies(l, txns) ==
    \/ txns = <<>>
    \/ /\ Inputs(Head(txns)) \subseteq l.utxos
       /\ AbarInputs(Head(txns)) \subseteq l.abars
       /\ Nullifiers(Head(txns)) \cap l.nullifier_set = {}
       /\ Defines(Head(txns)) \cap l.asset_types = {}
       /\ BlockApplies(apply_transaction(l, Head(txns)), Tail(txns))

PositionOf(txns, h) == CHOOSE i \in 1..Len(txns) : TxnHandleOf(txns[i]) = h

InBlock(txns, h) == \E i \in 1..Len(txns) : TxnHandleOf(txns[i]) = h

\* the status end_block gives the handle of a transaction of the ended block
EndBlockStatus(l, txns, h) ==
    IF BlockApplies(l, txns)
    THEN finish_block(l, txns, <<>>).results[PositionOf(txns, h)]
    ELSE Rejected

\* end_block: Ok exactly when a block is under construction
EndBlockOk == block.open

end_block ==
    IF block.open
    THEN /\ ledger' = IF BlockApplies(ledger, block.txns)
                      THEN finish_block(ledger, block.txns, <<>>).ledger
                      ELSE ledger
         /\ txn_status' = [h \in Handles |->
                              IF InBlock(block.txns, h)
                              THEN EndBlockStatus(ledger, block.txns, h)
                              ELSE txn_status[h]]
         /\ block' = NoBlock
    ELSE UNCHANGED <<ledger, block, txn_status>>

(***************************************************************************)
(* Ledger store with history indexing (ledger/src/store/api_cache.rs).     *)
(* Operations carry the fields the cache reads; a transaction is a list of *)
(* operations and its hash.                                                *)
(***************************************************************************)
\* blocks the store commits in the model
MaxCacheBlocks == 2

\* records of the store that lookups fail to find
MaxLost == 1

NoKey == "nokey"

\* an Operation: kind and the fields get_related_addresses, the classify
\* callback and update_api_cache read from it
BaseOp(kind) ==
    [kind |-> kind,
     pubkey |-> NoKey,
     code |-> NoKey,
     height |-> 0,
     inputs |-> <<>>,
     outputs |-> <<>>,
     anon_outputs |-> <<>>,
     related_pubkeys |-> {}]

NoMemo == "nomemo"

\* a transparent record: owner key, asset type (NoKey when confidential),
\* owner memo (NoMemo when there is none)
Rec(public_key, asset_type, memo) ==
    [public_key |-> public_key, asset_type |-> asset_type, memo |-> memo]

\* an anonymous output: its key and owner memo
ARec(public_key, memo) == [public_key |-> public_key, memo |-> memo]

StakingKinds == {"UpdateStaker", "Delegation", "UnDelegation", "Claim",
                 "UpdateValidator", "Governance", "FraDistribution", "MintFra"}

DefineAssetOp == [BaseOp("DefineAsset") EXCEPT !.pubkey = "alice", !.code = "AAAA"]

IssueAssetOp ==
    [BaseOp("IssueAsset") EXCEPT !.pubkey = "alice", !.code = "AAAA",
                                 !.outputs = <<Rec("alice", "AAAA", NoMemo)>>]

TransferAssetOp ==
    [BaseOp("TransferAsset") EXCEPT
        !.inputs = <<Rec("alice", "AAAA", NoMemo)>>,
        !.outputs = <<Rec("bob", "AAAA", NoMemo), Rec("carol", NoKey, "memo_c")>>]

UpdateMemoOp == [BaseOp("UpdateMemo") EXCEPT !.pubkey = "frank"]

BarToAbarOp ==
    [BaseOp("BarToAbar") EXCEPT
        !.inputs = <<Rec("bob", "AAAA", NoMemo)>>,
        !.anon_outputs = <<ARec("anon_b2a", "memo_b2a")>>]

AbarToBarOp ==
    [BaseOp("AbarToBar") EXCEPT !.outputs = <<Rec("carol", "AAAA", NoMemo)>>]

TransferAnonAssetOp ==
    [BaseOp("TransferAnonAsset") EXCEPT
        !.anon_outputs = <<ARec("anon_x", "memo_x"), ARec("anon_y", "memo_y")>>]

ClaimOp == [BaseOp("Claim") EXCEPT !.pubkey = "carol", !.related_pubkeys = {"carol"}]

DelegationOp ==
    [BaseOp("Delegation") EXCEPT !.pubkey = "bob", !.related_pubkeys = {"bob", "dave"}]

MintFraOp ==
    [BaseOp("MintFra") EXCEPT !.height = 7,
                              !.outputs = <<Rec("dave", "FRA", NoMemo)>>,
                              !.related_pubkeys = {"dave"}]

ConvertAccountOp == [BaseOp("ConvertAccount") EXCEPT !.pubkey = "erin"]

\* a Transaction: body.operations and hash_tm()
Txn(name, operations) == [hash |-> name, operations |-> operations]

\* the transactions of the model, in the order the clients submit them
CacheTxnOrder ==
    <<Txn("H_ISSUE", <<DefineAssetOp, IssueAssetOp>>),
      Txn("H_XFR", <<TransferAssetOp, UpdateMemoOp>>),
      Txn("H_ANON", <<TransferAnonAssetOp>>),
      Txn("H_ANON_B2A", <<TransferAnonAssetOp, BarToAbarOp>>),
      Txn("H_STAKE", <<ClaimOp, DelegationOp, MintFraOp>>),
      Txn("H_CONV", <<AbarToBarOp, ConvertAccountOp>>)>>

\* the blocks the consensus may commit: one transaction, or two that follow
\* one another
CacheBlocks ==
    {<<CacheTxnOrder[i]>> : i \in 1..Len(CacheTxnOrder)}
       \cup {<<CacheTxnOrder[i], CacheTxnOrder[i + 1]>> : i \in 1..(Len(CacheTxnOrder) - 1)}

RECURSIVE Flatten(_)
Flatten(ss) == IF ss = <<>> THEN <<>> ELSE Head(ss) \o Flatten(Tail(ss))

\* the transparent outputs of a transaction, in operation and output order
TxnOutputs(txn) ==
    Flatten([i \in 1..Len(txn.operations) |-> txn.operations[i].outputs])

\* the anonymous outputs of a transaction, in operation and output order
TxnAnonOutputs(txn) ==
    Flatten([i \in 1..Len(txn.operations) |-> txn.operations[i].anon_outputs])

(***************************************************************************)
(* The store: committed blocks, transactions by TxnSID, UTXO records by    *)
(* TxoSID (spent or not), and the records a lookup no longer finds         *)
(***************************************************************************)
EmptyStore ==
    [blocks |-> <<>>,
     txns |-> <<>>,
     utxos |-> <<>>,
     atxos |-> <<>>,
     lost_txns |-> {},
     lost_utxos |-> {}]

\* finalized transactions of a block: (tx_id, txo_ids, atxo_ids) in block order
RECURSIVE FinalizeBlock(_, _, _, _)
FinalizeBlock(txns, next_txn, next_txo, next_atxo) ==
    IF txns = <<>>
    THEN <<>>
    ELSE <<[tx_id |-> next_txn,
            txo_ids |-> NewSids(next_txo, Len(TxnOutputs(Head(txns)))),
            atxo_ids |-> NewSids(next_atxo, Len(TxnAnonOutputs(Head(txns))))]>>
         \o FinalizeBlock(Tail(txns), next_txn + 1,
                          next_txo + Len(TxnOutputs(Head(txns))),
                          next_atxo + Len(TxnAnonOutputs(Head(txns))))

\* the store after the block is applied; lost are the records of this block
\* that a later lookup does not find
apply_block(s, txns, lost) ==
    [blocks |-> Append(s.blocks,
                       FinalizeBlock(txns, Len(s.txns), Len(s.utxos), Len(s.atxos))),
     txns |-> s.txns \o txns,
     utxos |-> s.utxos \o Flatten([i \in 1..Len(txns) |-> TxnOutputs(txns[i])]),
     atxos |-> s.atxos \o Flatten([i \in 1..Len(txns) |-> TxnAnonOutputs(txns[i])]),
     lost_txns |-> s.lost_txns \cup lost.txns,
     lost_utxos |-> s.lost_utxos \cup lost.utxos]

\* get_transaction_light(sid): the transaction, when the lookup finds it
get_transaction_light_ok(s, sid) == sid \notin s.lost_txns

get_transaction_light(s, sid) == s.txns[sid + 1]

\* get_utxo_light(sid).or_else(|| get_spent_utxo_light(sid)): Some or None
get_utxo_light_some(s, sid) == sid \notin s.lost_utxos

get_utxo_light(s, sid) == s.utxos[sid + 1]

(***************************************************************************)
(* ApiCache.  A Mapx/Mapxnk is a set of <<key, value>> pairs with one      *)
(* pair per key; a nested map of TxnSIDs is a set of <<key, sid>> pairs.   *)
(***************************************************************************)
\* Mapx::insert: the value of the key is replaced
MapInsert(m, k, v) == {e \in m : e[1] # k} \cup {<<k, v>>}

MapHas(m, k) == \E e \in m : e[1] = k

MapGet(m, k) == (CHOOSE e \in m : e[1] = k)[2]

\* ApiCache::new
NewApiCache ==
    [related_transactions |-> {},
     related_transfers |-> {},
     claim_hist_txns |-> {},
     coinbase_oper_hist |-> {},
     created_assets |-> {},
     issuances |-> {},
     token_code_issuances |-> {},
     owner_memos |-> {},
     abar_memos |-> {},
     utxos_to_map_index |-> {},
     atxos_to_map_index |-> {},
     txo_to_txnid |-> {},
     atxo_to_txnid |-> {},
     txn_sid_to_hash |-> {},
     txn_hash_to_sid |-> {},
     staking_global_rate_hist |-> {},
     staking_self_delegation_hist |-> {},
     staking_delegation_amount_hist |-> {},
     staking_delegation_rwd_hist |-> {}]

\* add_created_asset: created_assets[issuer][code] = creation
add_created_asset(c, creation) ==
    [c EXCEPT !.created_assets =
        MapInsert(@, <<creation.pubkey, creation.code>>, creation)]

\* save_issuance!: entry(key).or_insert_with(Vec::new), then extend_from_slice
save_issuance(m, key, new_records) ==
    MapInsert(m, key, (IF MapHas(m, key) THEN MapGet(m, key) ELSE <<>>) \o new_records)

\* cache_issuance: the records are appended under the issuer and under the code
cache_issuance(c, issuance) ==
    [c EXCEPT
        !.issuances = save_issuance(@, issuance.pubkey, issuance.outputs),
        !.token_code_issuances = save_issuance(@, issuance.code, issuance.outputs)]

(***************************************************************************)
(* Staking history channels and cache_hist_data                            *)
(***************************************************************************)
EmptyChannels ==
    [CHAN_GLOB_RATE_HIST |-> <<>>,
     CHAN_V_SELF_D_HIST |-> <<>>,
     CHAN_D_AMOUNT_HIST |-> <<>>,
     CHAN_D_RWD_HIST |-> <<>>]

\* DelegationRwdDetail::default()
DefaultRwdDetail == [block_height |-> 0, amount |-> 0, bond |-> 0]

\* the tuples the staking engine emits at the end of the block of height h
EmitHistory(ch, h) ==
    [CHAN_GLOB_RATE_HIST |-> Append(ch.CHAN_GLOB_RATE_HIST, <<h, "rate">>),
     CHAN_V_SELF_D_HIST |-> Append(ch.CHAN_V_SELF_D_HIST, <<"validator", h, "self">>),
     CHAN_D_AMOUNT_HIST |-> Append(ch.CHAN_D_AMOUNT_HIST, <<"validator", h, "total">>),
     CHAN_D_RWD_HIST |->
         Append(ch.CHAN_D_RWD_HIST,
                <<"dave", h, [block_height |-> h, amount |-> 1, bond |-> h]>>)]

\* insert the <<key, value>> pairs in order
RECURSIVE InsertAll(_, _)
InsertAll(m, pairs) ==
    IF pairs = <<>>
    THEN m
    ELSE InsertAll(MapInsert(m, Head(pairs)[1], Head(pairs)[2]), Tail(pairs))

\* the (pk, height, value) tuples of a channel as pairs keyed by (pk, height)
ByKeyAndHeight(tuples) ==
    [i \in 1..Len(tuples) |-> <<<<tuples[i][1], tuples[i][2]>>, tuples[i][3]>>]

\* the reward details are summed into the entry of (pk, height)
RECURSIVE AddRewards(_, _)
AddRewards(m, tuples) ==
    IF tuples = <<>>
    THEN m
    ELSE LET pk == Head(tuples)[1]
             h == Head(tuples)[2]
             r == Head(tuples)[3]
             dd == IF MapHas(m, <<pk, h>>) THEN MapGet(m, <<pk, h>>) ELSE DefaultRwdDetail
         IN AddRewards(MapInsert(m, <<pk, h>>,
                                 [block_height |-> r.block_height,
                                  amount |-> dd.amount + r.amount,
                                  bond |-> IF 0 < r.bond THEN r.bond ELSE dd.bond]),
                       Tail(tuples))

\* cache_hist_data: try_iter() takes everything queued on the four channels
cache_hist_data(c, ch) ==
    [c EXCEPT
        !.staking_global_rate_hist = InsertAll(@, ch.CHAN_GLOB_RATE_HIST),
        !.staking_self_delegation_hist =
            InsertAll(@, ByKeyAndHeight(ch.CHAN_V_SELF_D_HIST)),
        !.staking_delegation_amount_hist =
            InsertAll(@, ByKeyAndHeight(ch.CHAN_D_AMOUNT_HIST)),
        !.staking_delegation_rwd_hist = AddRewards(@, ch.CHAN_D_RWD_HIST)]

(***************************************************************************)
(* get_related_addresses                                                   *)
(***************************************************************************)
\* the keys of a list of records
Keys(records) == {records[i].public_key : i \in 1..Len(records)}

\* the match with a TransferAsset arm that reads the outputs only
RelatedOfOp_outputs_only(op) ==
    CASE op.kind \in StakingKinds -> op.related_pubkeys
      [] op.kind = "BarToAbar" -> {op.inputs[1].public_key}
      [] op.kind = "AbarToBar" -> {op.outputs[1].public_key}
      [] op.kind = "TransferAnonAsset" -> {}
      [] op.kind = "ConvertAccount" -> {op.pubkey}
      [] op.kind = "TransferAsset" -> Keys(op.outputs)
      [] op.kind \in {"IssueAsset", "DefineAsset", "UpdateMemo"} -> {op.pubkey}

\* the match arm of one operation
RelatedOfOp(op) ==
    CASE op.kind \in StakingKinds -> op.related_pubkeys
      [] op.kind = "BarToAbar" -> {op.inputs[1].public_key}
      [] op.kind = "AbarToBar" -> {op.outputs[1].public_key}
      [] op.kind = "TransferAnonAsset" -> {}
      [] op.kind = "ConvertAccount" -> {op.pubkey}
      [] op.kind = "TransferAsset" -> Keys(op.inputs) \cup Keys(op.outputs)
      [] op.kind \in {"IssueAsset", "DefineAsset", "UpdateMemo"} -> {op.pubkey}

\* get_related_addresses(txn, classify): for each operation in order,
\* classify(op), then the match; acc is [related, classified]
RECURSIVE RelatedLoop(_, _)
RelatedLoop(operations, acc) ==
    IF operations = <<>>
    THEN acc
    ELSE RelatedLoop(Tail(operations),
                     [related |-> acc.related \cup RelatedOfOp(Head(operations)),
                      classified |-> Append(acc.classified, Head(operations))])

get_related_addresses(txn) ==
    RelatedLoop(txn.operations, [related |-> {}, classified |-> <<>>])

\* get_transferred_nonconfidential_assets: the asset types of the
\* non-confidential inputs of the TransferAsset operations
get_transferred_nonconfidential_assets(txn) ==
    UNION {{op.inputs[j].asset_type :
               j \in {k \in 1..Len(op.inputs) : op.inputs[k].asset_type # NoKey}} :
           op \in {o \in Range(txn.operations) : o.kind = "TransferAsset"}}

(***************************************************************************)
(* update_api_cache                                                        *)
(***************************************************************************)
Min(a, b) == IF a <= b THEN a ELSE b

\* the classify_op closure on the operations it was called with, in order
RECURSIVE classify_ops(_, _, _)
classify_ops(c, operations, txn_sid) ==
    IF operations = <<>>
    THEN c
    ELSE LET op == Head(operations) IN
         classify_ops(
            CASE op.kind = "Claim" ->
                   [c EXCEPT !.claim_hist_txns = @ \cup {<<op.pubkey, txn_sid>>}]
              [] op.kind = "MintFra" ->
                   [c EXCEPT !.coinbase_oper_hist =
                       InsertAll(@, [i \in 1..Len(op.outputs) |->
                                       <<<<op.outputs[i].public_key, op.height>>,
                                         op.outputs[i]>>])]
              [] OTHER -> c,
            Tail(operations), txn_sid)

\* "Add created asset": DefineAsset and IssueAsset operations in order
RECURSIVE cache_assets(_, _)
cache_assets(c, operations) ==
    IF operations = <<>>
    THEN c
    ELSE cache_assets(
            CASE Head(operations).kind = "DefineAsset" -> add_created_asset(c, Head(operations))
              [] Head(operations).kind = "IssueAsset" -> cache_issuance(c, Head(operations))
              [] OTHER -> c,
            Tail(operations))

\* "Add new utxos": txo_sids zipped with (addresses zipped with owner_memos)
cache_utxos(c, txn, txn_sid, txo_sids, addresses, owner_memos) ==
    LET n == Min(Len(txo_sids), Min(Len(addresses), Len(owner_memos)))
    IN [c EXCEPT
          !.utxos_to_map_index = InsertAll(@, [i \in 1..n |-> <<txo_sids[i], addresses[i]>>]),
          !.txo_to_txnid = InsertAll(@, [i \in 1..n |-> <<txo_sids[i], <<txn_sid, txn.hash>>>>]),
          !.txn_sid_to_hash = InsertAll(@, [i \in 1..n |-> <<txn_sid, txn.hash>>]),
          !.txn_hash_to_sid = InsertAll(@, [i \in 1..n |-> <<txn.hash, txn_sid>>]),
          !.owner_memos =
              InsertAll(@, SelectSeq([i \in 1..n |-> <<txo_sids[i], owner_memos[i]>>],
                                     LAMBDA p : p[2] # NoMemo))]

OpsOfKind(txn, kind) == SelectSeq(txn.operations, LAMBDA o : o.kind = kind)

\* conv_memos: (output key, memo) of each BarToAbar operation
conv_memos(txn) ==
    Flatten([i \in 1..Len(OpsOfKind(txn, "BarToAbar")) |->
                OpsOfKind(txn, "BarToAbar")[i].anon_outputs])

\* abar_memos: (output key, memo) of the outputs of each TransferAnonAsset operation
abar_memos(txn) ==
    Flatten([i \in 1..Len(OpsOfKind(txn, "TransferAnonAsset")) |->
                OpsOfKind(txn, "TransferAnonAsset")[i].anon_outputs])

\* conv_memos.chain(abar_memos).zip(atxo_sids)
cache_atxos(c, txn, txn_sid, atxo_sids) ==
    LET chained == conv_memos(txn) \o abar_memos(txn)
        n == Min(Len(chained), Len(atxo_sids))
    IN [c EXCEPT
          !.atxos_to_map_index =
              InsertAll(@, [i \in 1..n |-> <<atxo_sids[i], chained[i].public_key>>]),
          !.abar_memos = InsertAll(@, [i \in 1..n |-> <<atxo_sids[i], chained[i].memo>>]),
          !.atxo_to_txnid =
              InsertAll(@, [i \in 1..n |-> <<atxo_sids[i], <<txn_sid, txn.hash>>>>])]

\* the body of the loop for one finalized transaction whose lookups succeed
cache_txn(s, c, ft) ==
    LET curr_txn == get_transaction_light(s, ft.tx_id)
        addresses == [i \in 1..Len(ft.txo_ids) |->
                         get_utxo_light(s, ft.txo_ids[i]).public_key]
        owner_memos == [i \in 1..Len(TxnOutputs(curr_txn)) |-> TxnOutputs(curr_txn)[i].memo]
        call == get_related_addresses(curr_txn)
        c1 == classify_ops(c, call.classified, ft.tx_id)
        c2 == [c1 EXCEPT !.related_transactions =
                  @ \cup {<<a, ft.tx_id>> : a \in call.related}]
        c3 == [c2 EXCEPT !.related_transfers =
                  @ \cup {<<a, ft.tx_id>> :
                            a \in get_transferred_nonconfidential_assets(curr_txn)}]
        c4 == cache_assets(c3, curr_txn.operations)
        c5 == cache_utxos(c4, curr_txn, ft.tx_id, ft.txo_ids, addresses, owner_memos)
    IN cache_atxos(c5, curr_txn, ft.tx_id, ft.atxo_ids)

\* the loop over the transactions of the last block: Err at the first
\* transaction that is not found, a panic at the first output that is found
\* neither unspent nor spent
RECURSIVE cache_block(_, _, _, _)
cache_block(s, c, fts, calls) ==
    CASE fts = <<>> -> [cache |-> c, result |-> "Ok", calls |-> calls]
      [] fts # <<>> /\ ~get_transaction_light_ok(s, Head(fts).tx_id) ->
            [cache |-> c, result |-> "Err", calls |-> calls]
      [] fts # <<>> /\ get_transaction_light_ok(s, Head(fts).tx_id)
           /\ \E i \in 1..Len(Head(fts).txo_ids) :
                 ~get_utxo_light_some(s, Head(fts).txo_ids[i]) ->
            [cache |-> c, result |-> "panic", calls |-> calls]
      [] OTHER ->
            cache_block(s, cache_txn(s, c, Head(fts)), Tail(fts),
                        Append(calls,
                               [txn |-> get_transaction_light(s, Head(fts).tx_id),
                                call |-> get_related_addresses(
                                            get_transaction_light(s, Head(fts).tx_id))]))

\* update_api_cache without the KEEP_HIST test
update_api_cache_always(keep, s, c, ch) ==
    IF s.blocks = <<>>
    THEN [cache |-> cache_hist_data(c, ch), chan |-> EmptyChannels,
          result |-> "Ok", calls |-> <<>>]
    ELSE LET r == cache_block(s, cache_hist_data(c, ch), s.blocks[Len(s.blocks)], <<>>)
         IN [cache |-> r.cache, chan |-> EmptyChannels,
             result |-> r.result, calls |-> r.calls]

\* update_api_cache: the cache and the channels it leaves, its result, and the
\* get_related_addresses calls it made
update_api_cache(keep, s, c, ch) ==
    IF ~keep
    THEN [cache |-> c, chan |-> ch, result |-> "Ok", calls |-> <<>>]
    ELSE IF s.blocks = <<>>
         THEN [cache |-> cache_hist_data(c, ch), chan |-> EmptyChannels,
               result |-> "Ok", calls |-> <<>>]
         ELSE LET r == cache_block(s, cache_hist_data(c, ch), s.blocks[Len(s.blocks)], <<>>)
              IN [cache |-> r.cache, chan |-> EmptyChannels,
                  result |-> r.result, calls |-> r.calls]

\* re-applications of the last block the model performs
MaxReplays == 2

\* no update_api_cache has run yet
NoUpdate == [result |-> "none", calls |-> <<>>, replays |-> 0]

(***************************************************************************)
(* Clients that build transactions: TransactionBuilder (txn_builder) and   *)
(* the staking commands of the CLI library (finutils/src/common/mod.rs)    *)
(***************************************************************************)
\* records a basic transfer consumes at most
MaxTransferFrom == 2

\* recipients of a basic transfer at most
MaxTransferTo == 2

\* width of the u64 amounts, scaled down
U64Bits == 3

\* the sequences over S of length at most n
SeqsUpTo(S, n) == UNION {[1..k -> S] : k \in 0..n}

RECURSIVE Sum(_)
Sum(amounts) == IF amounts = <<>> THEN 0 ELSE Head(amounts) + Sum(Tail(amounts))

\* TransactionBuilder::default()
NewBuilder == [operations |-> <<>>, outputs |-> 0]

\* an entry of transfer_from: the TxoSID is its position, oar_amount the
\* amount of the opened record, amount the amount requested from it
FromEntries ==
    {[oar_amount |-> 4, amount |-> 4, asset_type |-> "AAAA", pub_key |-> "alice"],
     [oar_amount |-> 4, amount |-> 3, asset_type |-> "AAAA", pub_key |-> "alice"],
     [oar_amount |-> 3, amount |-> 4, asset_type |-> "AAAA", pub_key |-> "carol"],
     [oar_amount |-> 1, amount |-> 1, asset_type |-> "AAAA", pub_key |-> "carol"]}

\* an entry of transfer_to: amount and receiving address
ToEntries ==
    {[amount |-> 0, key |-> "bob"], [amount |-> 1, key |-> "bob"],
     [amount |-> 4, key |-> "dave"]}

\* AssetRecord::new(amount, asset_type, pub_key)
AssetRecord(amount, asset_type, pub_key) ==
    [amount |-> amount, asset_type |-> asset_type, pub_key |-> pub_key]

\* a u64 sum: a panic where the build checks overflow, else the wrapped sum
u64_sum(amounts, env) ==
    [panics |-> Sum(amounts) >= 2 ^ U64Bits /\ env.overflow_checks,
     value |-> Sum(amounts) % (2 ^ U64Bits)]

\* the change record of each partially consumed input, in input order
partially_consumed_inputs(transfer_from) ==
    LET partial == SelectSeq(transfer_from, LAMBDA e : e.amount < e.oar_amount)
    IN [i \in 1..Len(partial) |->
           AssetRecord(partial[i].oar_amount - partial[i].amount,
                       partial[i].asset_type, partial[i].pub_key)]

\* add_operation_transfer_asset: the operation is added when
\* AssetTransferBody::new accepts it
add_operation_transfer_asset(b, input_sids, input_records, output_records, env) ==
    IF env.body_ok
    THEN [builder |-> [operations |->
                          Append(b.operations,
                                 [kind |-> "AssetTransfer",
                                  input_sids |-> input_sids,
                                  inputs |-> input_records,
                                  outputs |-> output_records]),
                       outputs |-> b.outputs + Len(output_records)],
          result |-> "Ok"]
    ELSE [builder |-> b, result |-> "ZeiError"]

\* add_basic_transfer_asset: the builder it leaves and what it returns
add_basic_transfer_asset(b, transfer_from, transfer_to, env) ==
    LET input_amounts == [i \in 1..Len(transfer_from) |-> transfer_from[i].amount]
        input_total == u64_sum(input_amounts, env)
        output_total == u64_sum([i \in 1..Len(transfer_to) |-> transfer_to[i].amount], env)
    IN CASE ~env.opens -> [builder |-> b, result |-> "ZeiError"]
         [] env.opens /\ input_total.panics -> [builder |-> b, result |-> "panic"]
         [] env.opens /\ ~input_total.panics
              /\ (\E i \in 1..Len(transfer_from) :
                     transfer_from[i].amount > transfer_from[i].oar_amount) ->
                [builder |-> b, result |-> "InputsError"]
         [] OTHER ->
              IF output_total.panics
              THEN [builder |-> b, result |-> "panic"]
              ELSE IF input_total.value # output_total.value
              THEN [builder |-> b, result |-> "InputsError"]
              ELSE IF transfer_from = <<>>
              THEN [builder |-> b, result |-> "panic"]
              ELSE add_operation_transfer_asset(
                      b,
                      [i \in 1..Len(transfer_from) |-> i - 1],
                      [i \in 1..Len(transfer_from) |->
                          AssetRecord(transfer_from[i].oar_amount,
                                      transfer_from[i].asset_type,
                                      transfer_from[i].pub_key)],
                      [i \in 1..Len(transfer_to) |->
                          AssetRecord(transfer_to[i].amount,
                                      transfer_from[1].asset_type,
                                      transfer_to[i].key)]
                         \o partially_consumed_inputs(transfer_from),
                      env)

(***************************************************************************)
(* stake, stake_append and delegate of the CLI library                     *)
(***************************************************************************)
BLACK_HOLE_PUBKEY_STAKING == "BLACK_HOLE_PUBKEY_STAKING"

\* the smallest amount check_delegation_amount accepts
MIN_DELEGATION_AMOUNT == 1

\* amount.parse::<u64>() of the amount strings the user may type
AmountStrings ==
    {[parses |-> FALSE, value |-> 0], [parses |-> TRUE, value |-> 0],
     [parses |-> TRUE, value |-> 1], [parses |-> TRUE, value |-> 5]}

check_delegation_amount(am) == am >= MIN_DELEGATION_AMOUNT

\* utils::gen_transfer_op: one TransferAsset operation paying each target
gen_transfer_op(owner_kp, target_list, confidential_am, confidential_ty) ==
    [kind |-> "TransferAsset",
     owner |-> owner_kp,
     outputs |-> [i \in 1..Len(target_list) |->
                     [public_key |-> target_list[i][1],
                      amount |-> target_list[i][2],
                      confidential_amount |-> confidential_am,
                      confidential_type |-> confidential_ty]]]

\* TransactionBuilder::add_operation
add_operation(b, op) == [b EXCEPT !.operations = Append(@, op)]

\* TransactionBuilder::add_operation_staking: an UpdateStaker operation
add_operation_staking(b, kp, am) ==
    add_operation(b, [kind |-> "UpdateStaker", pubkey |-> kp, amount |-> am])

\* TransactionBuilder::add_operation_delegation
add_operation_delegation(b, kp, am, validator) ==
    add_operation(b, [kind |-> "Delegation", pubkey |-> kp, amount |-> am,
                      validator |-> validator])

\* what a command leaves: its result, the builder, the transactions sent
Outcome(result, b, txns) == [result |-> result, builder |-> b, sent |-> txns]

\* utils::send_tx(&builder.take_transaction())
send_tx(b, fail) ==
    Outcome(IF fail = "send_tx" THEN "Err" ELSE "Ok", b, <<b.operations>>)

\* stake: the staking operation first, then the transfer of the principal
stake(a) ==
    CASE ~a.amount.parses -> Outcome("Err", NewBuilder, <<>>)
      [] a.amount.parses /\ ~check_delegation_amount(a.amount.value) ->
            Outcome("Err", NewBuilder, <<>>)
      [] a.amount.parses /\ check_delegation_amount(a.amount.value)
           /\ a.fail \in {"commission_rate", "keys"} -> Outcome("Err", NewBuilder, <<>>)
      [] OTHER ->
            IF ~a.heights_close /\ ~a.force
            THEN Outcome("Ok", NewBuilder, <<>>)
            ELSE IF a.fail \in {"new_tx_builder", "staking_op"}
            THEN Outcome("Err", NewBuilder, <<>>)
            ELSE LET b1 == add_operation_staking(NewBuilder, "kp", a.amount.value)
                 IN IF a.fail = "transfer_op"
                    THEN Outcome("Err", b1, <<>>)
                    ELSE send_tx(add_operation(
                                    b1,
                                    gen_transfer_op(
                                       "kp",
                                       <<<<BLACK_HOLE_PUBKEY_STAKING, a.amount.value>>>>,
                                       FALSE, FALSE)),
                                 a.fail)

\* stake_append that sends what it has built when the transfer fails
stake_append_unmatched(a) ==
    CASE ~a.amount.parses -> Outcome("Err", NewBuilder, <<>>)
      [] a.amount.parses /\ ~check_delegation_amount(a.amount.value) ->
            Outcome("Err", NewBuilder, <<>>)
      [] a.amount.parses /\ check_delegation_amount(a.amount.value)
           /\ a.fail \in {"keys", "new_tx_builder"} -> Outcome("Err", NewBuilder, <<>>)
      [] OTHER ->
            LET b1 == add_operation_delegation(NewBuilder, "kp", a.amount.value, "td_addr")
            IN IF a.fail = "transfer_op"
               THEN send_tx(b1, a.fail)
               ELSE send_tx(add_operation(
                               b1,
                               gen_transfer_op(
                                  "kp",
                                  <<<<BLACK_HOLE_PUBKEY_STAKING, a.amount.value>>>>,
                                  FALSE, FALSE)),
                            a.fail)

\* stake_append: the delegation first, then the transfer of the principal
stake_append(a) ==
    CASE ~a.amount.parses -> Outcome("Err", NewBuilder, <<>>)
      [] a.amount.parses /\ ~check_delegation_amount(a.amount.value) ->
            Outcome("Err", NewBuilder, <<>>)
      [] a.amount.parses /\ check_delegation_amount(a.amount.value)
           /\ a.fail \in {"keys", "new_tx_builder"} -> Outcome("Err", NewBuilder, <<>>)
      [] OTHER ->
            LET b1 == add_operation_delegation(NewBuilder, "kp", a.amount.value, "td_addr")
            IN IF a.fail = "transfer_op"
               THEN Outcome("Err", b1, <<>>)
               ELSE send_tx(add_operation(
                               b1,
                               gen_transfer_op(
                                  "kp",
                                  <<<<BLACK_HOLE_PUBKEY_STAKING, a.amount.value>>>>,
                                  FALSE, FALSE)),
                            a.fail)

\* gen_delegate_tx: the transfer of the principal, and only when it was
\* built, both operations
gen_delegate_tx(owner_kp, amount, validator, fail) ==
    IF fail \in {"new_tx_builder", "transfer_op"}
    THEN [ok |-> FALSE, builder |-> NewBuilder]
    ELSE [ok |-> TRUE,
          builder |->
             add_operation_delegation(
                add_operation(NewBuilder,
                              gen_transfer_op(owner_kp,
                                              <<<<BLACK_HOLE_PUBKEY_STAKING, amount>>>>,
                                              FALSE, FALSE)),
                owner_kp, amount, validator)]

\* delegate: restore the key pair, gen_delegate_tx, send_tx
delegate(a) ==
    IF a.fail = "keys"
    THEN Outcome("Err", NewBuilder, <<>>)
    ELSE LET tx == gen_delegate_tx("kp", a.amount.value, "td_addr", a.fail)
         IN IF tx.ok THEN send_tx(tx.builder, a.fail)
                     ELSE Outcome("Err", tx.builder, <<>>)

\* no call has been made
NoOutcome == "none"

\* the calls of the model with their arguments; fail is the step of the
\* command that fails, if any
StakingCalls ==
    [fn : {"stake"}, amount : AmountStrings, force : BOOLEAN, heights_close : BOOLEAN,
     fail : {"none", "commission_rate", "keys", "new_tx_builder", "staking_op",
             "transfer_op", "send_tx"},
     result : {NoOutcome}]
       \cup [fn : {"stake_append"}, amount : AmountStrings, force : {FALSE},
             heights_close : {TRUE},
             fail : {"none", "keys", "new_tx_builder", "transfer_op", "send_tx"},
             result : {NoOutcome}]
       \cup [fn : {"delegate"}, amount : {a \in AmountStrings : a.parses}, force : {FALSE},
             heights_close : {TRUE},
             fail : {"none", "keys", "new_tx_builder", "transfer_op", "send_tx"},
             result : {NoOutcome}]

\* env is what the surroundings of a call decide: whether open_asset_record
\* opens every record, whether AssetTransferBody::new accepts the transfer,
\* and whether the build checks arithmetic overflow (debug) or wraps (release)
TransferCalls ==
    [fn : {"add_basic_transfer_asset"},
     transfer_from : SeqsUpTo(FromEntries, MaxTransferFrom),
     transfer_to : SeqsUpTo(ToEntries, MaxTransferTo),
     env : [opens : BOOLEAN, body_ok : BOOLEAN, overflow_checks : BOOLEAN],
     result : {NoOutcome}]

\* the client has not been started
NoCall == [fn |-> "none", result |-> NoOutcome]

(***************************************************************************)
(* Initial state: SubmissionServer::new over LedgerState::test_ledger()    *)
(***************************************************************************)
Idle == "idle"

Init ==
    /\ deployment \in {"abci_validator_node", "submission_api"}
    /\ ledger = test_ledger
    /\ block = NoBlock
    /\ txn_status = [h \in Handles |-> NoStatus]
    /\ in_commit = FALSE
    /\ ledgerLock = FreeLock
    /\ serverLock = FreeLock
    /\ pc = [t \in Threads |-> Idle]
    /\ built = {}
    /\ resp = NoResponse
    /\ crashed = FALSE
    /\ keep_hist = TRUE
    /\ store = EmptyStore
    /\ api_cache = NewApiCache
    /\ chan = EmptyChannels
    /\ last_update = NoUpdate
    /\ builder = NewBuilder
    /\ cli = NoCall
    /\ sent = <<>>

Abci == deployment = "abci_validator_node" /\ ~crashed

Http == deployment = "submission_api" /\ ~crashed

\* a block can be ended while the model's block budget lasts
CanEndBlock == block.open => ledger.block_commit_count < MaxBlocks

\* anonymous transfers exist only once a client has built them
Submittable(tx) == tx.base \in AnonBases => tx.base \in built

(***************************************************************************)
(* ABCI application callbacks (one consensus thread, &mut self)            *)
(***************************************************************************)
\* the lock check_tx takes on the committed state
CheckTxLockMode == "write"

\* check_tx on bytes that do not deserialize: no lock is taken
check_tx_unpack ==
    /\ Abci /\ pc["consensus"] = Idle
    /\ \E bytes \in Bytes :
          /\ convert_tx(bytes) = NoTx
          /\ resp' = Failure("check_tx", 1, "Could not unpack transaction", "Deserialization")
    /\ UNCHANGED <<clientVars, cacheVars, deployment, ledger, serverVars, ledgerLock, serverLock, pc,
                   built, crashed>>

\* check_tx: get_committed_state().write(); the guard is an Err only when the
\* lock is poisoned, which takes a writer that panicked while holding it: the
\* only panic of the node ends the process
check_tx_lock ==
    /\ Abci /\ pc["consensus"] = Idle
    /\ CanAcquire(ledgerLock, CheckTxLockMode)
    /\ ledgerLock' = Acquire(ledgerLock, "consensus", CheckTxLockMode)
    /\ pc' = [pc EXCEPT !["consensus"] = "check_tx"]
    /\ UNCHANGED <<clientVars, cacheVars, deployment, ledger, serverVars, serverLock, built, resp, crashed>>

\* check_tx that caches the transaction it validated
CheckTxEffect_caching(tx) ==
    /\ cache_transaction(block, tx)
    /\ UNCHANGED <<ledger, in_commit>>

\* what check_tx does to the server and the committed state
CheckTxEffect(tx) == UNCHANGED <<ledger, serverVars>>

\* check_tx: TxnEffect::compute_effect(state.get_prng(), tx), then the guard drops
check_tx(tx) ==
    /\ Abci /\ pc["consensus"] = "check_tx"
    /\ Submittable(tx)
    /\ resp' = IF compute_effect(get_prng(ledger), tx).ok
               THEN Response("check_tx", 0, "")
               ELSE Failure("check_tx", 1, "Check failed", "SignatureInvalid")
    /\ CheckTxEffect(tx)
    /\ ledgerLock' = Release(ledgerLock, "consensus")
    /\ pc' = [pc EXCEPT !["consensus"] = Idle]
    /\ UNCHANGED <<clientVars, cacheVars, deployment, serverLock, built, crashed>>

\* deliver_tx that lets undecodable bytes fall through to the plain response
DeliverError_unpack_ignored(tx) ==
    CASE tx = NoTx -> ""
      [] CacheResult(block, ledger, tx) # "Ok" -> CacheResult(block, ledger, tx)
      [] OTHER -> ""

\* the error deliver_tx meets, "" when there is none
DeliverError(tx) ==
    CASE tx = NoTx -> "Deserialization"
      [] CacheResult(block, ledger, tx) # "Ok" -> CacheResult(block, ledger, tx)
      [] OTHER -> ""

\* deliver_tx that never reaches set_code(1)
DeliverCode_never_set(tx) == 0

\* deliver_tx: the code stays 0 when cache_transaction succeeded, set_code(1) otherwise
DeliverCode(tx) == IF DeliverError(tx) = "" THEN 0 ELSE 1

deliver_tx(bytes) ==
    /\ Abci /\ pc["consensus"] = Idle
    /\ CanAcquire(ledgerLock, "write")
    /\ LET tx == convert_tx(bytes) IN
          /\ tx # NoTx => Submittable(tx)
          /\ IF tx # NoTx
             THEN cache_transaction(block, tx)
             ELSE UNCHANGED <<block, txn_status>>
          /\ resp' = Failure("deliver_tx", DeliverCode(tx), "", DeliverError(tx))
    /\ UNCHANGED <<clientVars, cacheVars, deployment, ledger, in_commit, ledgerLock, serverLock, pc,
                   built, crashed>>

\* begin_block that always starts from an empty block
begin_block_reopening ==
    /\ Abci /\ pc["consensus"] = Idle
    /\ CanAcquire(ledgerLock, "write")
    /\ block' = EmptyBlock
    /\ resp' = Response("begin_block", 0, "")
    /\ UNCHANGED <<clientVars, cacheVars, deployment, ledger, txn_status, in_commit, ledgerLock,
                   serverLock, pc, built, crashed>>

\* begin_block: SubmissionServer::begin_block, then an empty ResponseBeginBlock
begin_block ==
    /\ Abci /\ pc["consensus"] = Idle
    /\ CanAcquire(ledgerLock, "write")
    /\ block' = IF block.open THEN block ELSE EmptyBlock
    /\ resp' = Response("begin_block", 0, "")
    /\ UNCHANGED <<clientVars, cacheVars, deployment, ledger, txn_status, in_commit, ledgerLock,
                   serverLock, pc, built, crashed>>

\* an end_block callback that answers without ending the block
abci_end_block_skipped ==
    /\ Abci /\ pc["consensus"] = Idle
    /\ CanAcquire(ledgerLock, "write")
    /\ CanEndBlock
    /\ resp' = Response("end_block", 0, "")
    /\ UNCHANGED <<clientVars, cacheVars, deployment, ledger, serverVars, ledgerLock, serverLock, pc,
                   built, crashed>>

\* an end_block callback that reports the error instead of unwrapping it
abci_end_block_propagating ==
    /\ Abci /\ pc["consensus"] = Idle
    /\ CanAcquire(ledgerLock, "write")
    /\ CanEndBlock
    /\ end_block
    /\ resp' = IF EndBlockOk
               THEN Response("end_block", 0, "")
               ELSE Failure("end_block", 1, "", "NoBlock")
    /\ UNCHANGED <<clientVars, cacheVars, deployment, in_commit, ledgerLock, serverLock, pc,
                   built, crashed>>

\* end_block: self.la.end_block().unwrap()
abci_end_block ==
    /\ Abci /\ pc["consensus"] = Idle
    /\ CanAcquire(ledgerLock, "write")
    /\ CanEndBlock
    /\ end_block
    /\ IF EndBlockOk
       THEN /\ resp' = Response("end_block", 0, "")
            /\ crashed' = FALSE
       ELSE /\ resp' = Failure("end_block", 1, "panic", "NoBlock")
            /\ crashed' = TRUE
    /\ UNCHANGED <<clientVars, cacheVars, deployment, in_commit, ledgerLock, serverLock, pc, built>>

\* a commit callback that returns after begin_commit
CommitNext_returns == "idle"

\* where the commit callback stands after begin_commit: before end_commit
CommitNext == "commit"

\* commit: self.la.begin_commit()
commit_begin ==
    /\ Abci /\ pc["consensus"] = Idle
    /\ in_commit' = TRUE
    /\ pc' = [pc EXCEPT !["consensus"] = CommitNext]
    /\ UNCHANGED <<clientVars, cacheVars, deployment, ledger, block, txn_status, ledgerLock, serverLock,
                   built, resp, crashed>>

\* a commit callback that counts a block of its own
commit_end_counting ==
    /\ Abci /\ pc["consensus"] = "commit"
    /\ in_commit' = FALSE
    /\ pc' = [pc EXCEPT !["consensus"] = Idle]
    /\ resp' = Response("commit", 0, "")
    /\ ledger' = [ledger EXCEPT !.block_commit_count = @ + 1]
    /\ UNCHANGED <<clientVars, cacheVars, deployment, block, txn_status, ledgerLock, serverLock,
                   built, crashed>>

\* commit: self.la.end_commit(); ResponseCommit::new()
commit_end ==
    /\ Abci /\ pc["consensus"] = "commit"
    /\ in_commit' = FALSE
    /\ pc' = [pc EXCEPT !["consensus"] = Idle]
    /\ resp' = Response("commit", 0, "")
    /\ UNCHANGED <<clientVars, cacheVars, deployment, ledger, block, txn_status, ledgerLock, serverLock,
                   built, crashed>>

(***************************************************************************)
(* HTTP submission routes (actix workers sharing web::Data)                *)
(***************************************************************************)
\* the lock each route takes on the submission server
SubmitTransactionLockMode == "write"

\* force_end_block under data.read()
ForceEndBlockLockMode_read == "read"

ForceEndBlockLockMode == "write"

TxnStatusLockMode == "write"

RouteLockMode(route) ==
    CASE route = "submit_transaction" -> SubmitTransactionLockMode
      [] route = "force_end_block" -> ForceEndBlockLockMode
      [] OTHER -> TxnStatusLockMode

\* a worker enters a route: data.write().unwrap()
route_lock(t, route) ==
    /\ Http /\ pc[t] = Idle
    /\ CanAcquire(serverLock, RouteLockMode(route))
    /\ serverLock' = Acquire(serverLock, t, RouteLockMode(route))
    /\ pc' = [pc EXCEPT ![t] = route]
    /\ UNCHANGED <<clientVars, cacheVars, deployment, ledger, serverVars, ledgerLock, built, resp, crashed>>

\* submit_transaction with the arms of the match exchanged
SubmitResponse_swapped(tx) ==
    IF CacheResult(HandleBlock, ledger, tx) # "Ok"
    THEN Response("submit_transaction", 200, "handle")
    ELSE Failure("submit_transaction", 400, "Ok", "Ok")

\* submit_transaction answering a failure as an internal error
SubmitResponse_internal_error(tx) ==
    IF CacheResult(HandleBlock, ledger, tx) = "Ok"
    THEN Response("submit_transaction", 200, "handle")
    ELSE Failure("submit_transaction", 500, "Internal Server Error",
                 CacheResult(HandleBlock, ledger, tx))

\* the answer of submit_transaction: the handle, or 400 with the error message
SubmitResponse(tx) ==
    IF CacheResult(HandleBlock, ledger, tx) = "Ok"
    THEN Response("submit_transaction", 200, "handle")
    ELSE Failure("submit_transaction", 400, CacheResult(HandleBlock, ledger, tx),
                 CacheResult(HandleBlock, ledger, tx))

\* submit_transaction: handle_transaction(tx) under the server lock
submit_transaction(t, tx) ==
    /\ Http /\ pc[t] = "submit_transaction"
    /\ CanAcquire(ledgerLock, "write")
    /\ Submittable(tx)
    /\ cache_transaction(HandleBlock, tx)
    /\ resp' = SubmitResponse(tx)
    /\ serverLock' = Release(serverLock, t)
    /\ pc' = [pc EXCEPT ![t] = Idle]
    /\ UNCHANGED <<clientVars, cacheVars, deployment, ledger, in_commit, ledgerLock, built, crashed>>

\* an answer of force_end_block that reports a failed end_block as a bad request
ForceEndBlockResponse_bad_request(ok) ==
    IF ok
    THEN Response("force_end_block", 200,
                  "Block successfully ended. All previously valid pending transactions are now committed")
    ELSE Failure("force_end_block", 400, "No pending transactions to commit", "NoBlock")

\* the answer of force_end_block: always 200
ForceEndBlockResponse(ok) ==
    IF ok
    THEN Response("force_end_block", 200,
                  "Block successfully ended. All previously valid pending transactions are now committed")
    ELSE Failure("force_end_block", 200, "No pending transactions to commit", "NoBlock")

\* force_end_block that answers without ending the block
force_end_block_unended(t) ==
    /\ Http /\ pc[t] = "force_end_block"
    /\ CanAcquire(ledgerLock, "write")
    /\ CanEndBlock
    /\ resp' = ForceEndBlockResponse(EndBlockOk)
    /\ serverLock' = Release(serverLock, t)
    /\ pc' = [pc EXCEPT ![t] = Idle]
    /\ UNCHANGED <<clientVars, cacheVars, deployment, ledger, serverVars, ledgerLock, built, crashed>>

\* force_end_block: end_block() under the server lock
force_end_block(t) ==
    /\ Http /\ pc[t] = "force_end_block"
    /\ CanAcquire(ledgerLock, "write")
    /\ CanEndBlock
    /\ end_block
    /\ resp' = ForceEndBlockResponse(EndBlockOk)
    /\ serverLock' = Release(serverLock, t)
    /\ pc' = [pc EXCEPT ![t] = Idle]
    /\ UNCHANGED <<clientVars, cacheVars, deployment, in_commit, ledgerLock, built, crashed>>

\* serde_json::to_string(&status): the JSON text of a TxnStatus
to_string(status) == <<"json", status.st, status.sid, status.outs>>

\* format!("No transaction with handle {} found. Please retry with a new handle.", &info)
NotFoundMessage(h) ==
    <<"No transaction with handle ", h, " found. Please retry with a new handle.">>

\* txn_status that reports a Pending transaction as not found
TxnStatusResponse_pending_not_found(h) ==
    IF get_txn_status(h) \notin {NoStatus, Pending}
    THEN Response("txn_status", 200, to_string(get_txn_status(h)))
    ELSE Response("txn_status", 200, NotFoundMessage(h))

\* the answer of txn_status: the serialized status or the not-found message
TxnStatusResponse(h) ==
    IF get_txn_status(h) # NoStatus
    THEN Response("txn_status", 200, to_string(get_txn_status(h)))
    ELSE Response("txn_status", 200, NotFoundMessage(h))

\* txn_status: get_txn_status(handle) under the server lock
txn_status_route(t, h) ==
    /\ Http /\ pc[t] = "txn_status"
    /\ resp' = TxnStatusResponse(h)
    /\ serverLock' = Release(serverLock, t)
    /\ pc' = [pc EXCEPT ![t] = Idle]
    /\ UNCHANGED <<clientVars, cacheVars, deployment, ledger, serverVars, ledgerLock, built, crashed>>

(***************************************************************************)
(* RestfulLedgerUpdate clients: what txn_status returns to its caller for  *)
(* the answer r of the route                                               *)
(***************************************************************************)
\* serde_json::from_str::<TxnStatus>(text) succeeds on the JSON text of a status
from_str_ok(text) == Len(text) = 4 /\ text[1] = "json"

from_str(text) == [st |-> text[2], sid |-> text[3], outs |-> text[4]]

\* MockLUClient::txn_status: Err on a status other than 200, else
\* serde_json::from_str(&result).unwrap()
MockLUClient_txn_status(r) ==
    IF r.code # 200
    THEN [kind |-> "Err", value |-> "InputsError"]
    ELSE IF from_str_ok(r.body)
         THEN [kind |-> "Ok", value |-> from_str(r.body)]
         ELSE [kind |-> "panic", value |-> "unwrap"]

\* ActixLUClient::txn_status: actix_get_request(..).map_err(inp_fail)?, then
\* serde_json::from_str::<TxnStatus>(&text).map_err(des_fail)
ActixLUClient_txn_status(r) ==
    IF r.code # 200
    THEN [kind |-> "Err", value |-> "InputsError"]
    ELSE IF from_str_ok(r.body)
         THEN [kind |-> "Ok", value |-> from_str(r.body)]
         ELSE [kind |-> "Err", value |-> "DeserializationError"]

(***************************************************************************)
(* Readers of the committed state: the query service                      *)
(***************************************************************************)
query_lock ==
    /\ Abci /\ pc["query"] = Idle
    /\ CanAcquire(ledgerLock, "read")
    /\ ledgerLock' = Acquire(ledgerLock, "query", "read")
    /\ pc' = [pc EXCEPT !["query"] = "reading"]
    /\ UNCHANGED <<clientVars, cacheVars, deployment, ledger, serverVars, serverLock, built, resp, crashed>>

query_unlock ==
    /\ Abci /\ pc["query"] = "reading"
    /\ ledgerLock' = Release(ledgerLock, "query")
    /\ pc' = [pc EXCEPT !["query"] = Idle]
    /\ UNCHANGED <<clientVars, cacheVars, deployment, ledger, serverVars, serverLock, built, resp, crashed>>

(***************************************************************************)
(* Client: gen_oabar_add_op builds an anonymous transfer for the ABAR      *)
(* it owns after asking the node whether its nullifier is spent            *)
(***************************************************************************)
\* utils::check_nullifier_hash: is the nullifier in the committed set?
check_nullifier_hash(l, n) == n \in l.nullifier_set

\* gen_oabar_add_op without the nullifier check
gen_oabar_add_op_unchecked(c) ==
    /\ ~crashed
    /\ CanAcquire(ledgerLock, "read")
    /\ 0 \in ledger.abars
    /\ built' = built \cup {c}
    /\ UNCHANGED <<clientVars, cacheVars, deployment, ledger, serverVars, ledgerLock, serverLock, pc,
                   resp, crashed>>

gen_oabar_add_op(c) ==
    /\ ~crashed
    /\ CanAcquire(ledgerLock, "read")
    /\ 0 \in ledger.abars
    /\ ~check_nullifier_hash(ledger, nullifier(0))
    /\ built' = built \cup {c}
    /\ UNCHANGED <<clientVars, cacheVars, deployment, ledger, serverVars, ledgerLock, serverLock, pc,
                   resp, crashed>>

Routes == {"submit_transaction", "force_end_block", "txn_status"}

Next ==
    \/ check_tx_unpack
    \/ check_tx_lock
    \/ \E tx \in Txs : check_tx(tx)
    \/ \E bytes \in Bytes : deliver_tx(bytes)
    \/ begin_block
    \/ abci_end_block
    \/ commit_begin
    \/ commit_end
    \/ \E t \in HttpWorkers, route \in Routes : route_lock(t, route)
    \/ \E t \in HttpWorkers, tx \in Txs : submit_transaction(t, tx)
    \/ \E t \in HttpWorkers : force_end_block(t)
    \/ \E t \in HttpWorkers, h \in Handles : txn_status_route(t, h)
    \/ query_lock
    \/ query_unlock
    \/ \E c \in AnonBases : gen_oabar_add_op(c)

Spec == Init /\ [][Next]_vars

(***************************************************************************)
(* The store's commit: the block is applied, the staking engine emits its  *)
(* history, and the API cache is updated, all inside the writer's critical *)
(* section; an Err of the cache update is logged and dropped               *)
(***************************************************************************)
\* what a lookup may fail to find of a block about to be committed: nothing,
\* one of its transactions, or one of its outputs
LostChoices(s, txns) ==
    {[txns |-> {}, utxos |-> {}]}
       \cup {[txns |-> {sid}, utxos |-> {}] :
                sid \in Len(s.txns)..(Len(s.txns) + Len(txns) - 1)}
       \cup {[txns |-> {}, utxos |-> {sid}] :
                sid \in Len(s.utxos)..(Len(s.utxos)
                          + Len(Flatten([i \in 1..Len(txns) |-> TxnOutputs(txns[i])])) - 1)}

CacheInit ==
    /\ deployment = "ledger_store"
    /\ ledger = test_ledger
    /\ block = NoBlock
    /\ txn_status = [h \in Handles |-> NoStatus]
    /\ in_commit = FALSE
    /\ ledgerLock = FreeLock
    /\ serverLock = FreeLock
    /\ pc = [t \in Threads |-> Idle]
    /\ built = {}
    /\ resp = NoResponse
    /\ crashed = FALSE
    /\ keep_hist \in BOOLEAN
    /\ store = EmptyStore
    /\ api_cache = NewApiCache
    /\ chan = EmptyChannels
    /\ last_update = NoUpdate
    /\ builder = NewBuilder
    /\ cli = NoCall
    /\ sent = <<>>

\* commit of a block of the store
commit_block(txns) ==
    /\ ~crashed
    /\ Len(store.blocks) < MaxCacheBlocks
    /\ Range(txns) \cap Range(store.txns) = {}
    /\ \E lost \in LostChoices(store, txns) :
          /\ Cardinality(store.lost_txns \cup lost.txns)
                + Cardinality(store.lost_utxos \cup lost.utxos) <= MaxLost
          /\ LET s1 == apply_block(store, txns, lost)
                 r == update_api_cache(keep_hist, s1, api_cache,
                                       EmitHistory(chan, Len(s1.blocks)))
             IN /\ store' = s1
                /\ api_cache' = r.cache
                /\ chan' = r.chan
                /\ last_update' = [result |-> r.result, calls |-> r.calls, replays |-> 0]
                /\ crashed' = (r.result = "panic")
    /\ UNCHANGED <<clientVars, nodeVars, keep_hist>>

\* re-apply of the last block: update_api_cache runs again on the same store
replay_update ==
    /\ ~crashed
    /\ store.blocks # <<>>
    /\ last_update.replays < MaxReplays
    /\ LET r == update_api_cache(keep_hist, store, api_cache, chan)
       IN /\ api_cache' = r.cache
          /\ chan' = r.chan
          /\ last_update' = [result |-> r.result, calls |-> r.calls,
                             replays |-> last_update.replays + 1]
          /\ crashed' = (r.result = "panic")
    /\ UNCHANGED <<clientVars, nodeVars, keep_hist, store>>

CacheNext ==
    \/ \E txns \in CacheBlocks : commit_block(txns)
    \/ replay_update

CacheSpec == CacheInit /\ [][CacheNext]_vars

(***************************************************************************)
(* The client: one call, with the arguments it was started with            *)
(***************************************************************************)
ClientInit ==
    /\ deployment = "client"
    /\ ledger = test_ledger
    /\ block = NoBlock
    /\ txn_status = [h \in Handles |-> NoStatus]
    /\ in_commit = FALSE
    /\ ledgerLock = FreeLock
    /\ serverLock = FreeLock
    /\ pc = [t \in Threads |-> Idle]
    /\ built = {}
    /\ resp = NoResponse
    /\ crashed = FALSE
    /\ keep_hist = TRUE
    /\ store = EmptyStore
    /\ api_cache = NewApiCache
    /\ chan = EmptyChannels
    /\ last_update = NoUpdate
    /\ builder = NewBuilder
    /\ cli \in StakingCalls \cup TransferCalls
    /\ sent = <<>>

\* the call returns: its result, the builder it leaves, what it has sent
Returns(o) ==
    /\ cli' = [cli EXCEPT !.result = o.result]
    /\ builder' = o.builder
    /\ sent' = sent \o o.sent
    /\ UNCHANGED <<nodeVars, crashed, cacheVars>>

run_stake ==
    /\ cli.fn = "stake" /\ cli.result = NoOutcome
    /\ Returns(stake(cli))

run_stake_append ==
    /\ cli.fn = "stake_append" /\ cli.result = NoOutcome
    /\ Returns(stake_append(cli))

run_delegate ==
    /\ cli.fn = "delegate" /\ cli.result = NoOutcome
    /\ Returns(delegate(cli))

run_add_basic_transfer_asset ==
    /\ cli.fn = "add_basic_transfer_asset" /\ cli.result = NoOutcome
    /\ LET r == add_basic_transfer_asset(builder, cli.transfer_from, cli.transfer_to,
                                         cli.env)
       IN Returns(Outcome(r.result, r.builder, <<>>))

ClientNext ==
    \/ run_stake
    \/ run_stake_append
    \/ run_delegate
    \/ run_add_basic_transfer_asset

ClientSpec == ClientInit /\ [][ClientNext]_vars

(***************************************************************************)
(* Properties                                                              *)
(***************************************************************************)
Tx(b) == [base |-> b, seq_id |-> BuiltAt(b)]

CommittedTxns == ledger.transactions

\* a transaction the server is asked to cache: by deliver_tx or by a submission
CacheStep(tx) ==
    \/ deliver_tx(Encode(tx))
    \/ \E t \in HttpWorkers : submit_transaction(t, tx)

\* the handle's status names the place the ledger gave its transaction
CommittedStatusInLedger ==
    \A tx \in Txs :
        txn_status[TxnHandleOf(tx)].st = "Committed" =>
            /\ txn_status[TxnHandleOf(tx)].sid + 1 \in 1..Len(CommittedTxns)
            /\ CommittedTxns[txn_status[TxnHandleOf(tx)].sid + 1] = tx

NoTxoConsumedTwice ==
    \A i, j \in 1..Len(CommittedTxns) :
        i # j => Inputs(CommittedTxns[i]) \cap Inputs(CommittedTxns[j]) = {}

\* a delivery that consumes a TxoSID the block already consumes is answered
\* with a non-zero code and changes neither the block nor any status
DuplicateInputRejected ==
    \A tx \in Txs :
        (Inputs(tx) \cap BlockInputs(block.txns) # {} /\ deliver_tx(Encode(tx))) =>
            /\ resp'.code # 0
            /\ UNCHANGED <<block, txn_status, ledger>>

EndBlockStep == abci_end_block \/ \E t \in HttpWorkers : force_end_block(t)

NoPendingOutsideBlock ==
    \A h \in Handles :
        txn_status[h] = Pending => block.open /\ InBlock(block.txns, h)

\* C3: after a successful end_block no handle of the ended block is Pending:
\* each is Committed when the block applied and Rejected otherwise
C3_EndBlockResolvesHandles ==
    /\ []NoPendingOutsideBlock
    /\ [][(EndBlockStep /\ EndBlockOk) =>
            \A h \in Handles :
               InBlock(block.txns, h) =>
                  /\ txn_status'[h] # Pending
                  /\ txn_status'[h].st =
                        IF BlockApplies(ledger, block.txns) THEN "Committed" ELSE "Rejected"
                  /\ txn_status'[h].st = "Committed" =>
                        ledger'.transactions[txn_status'[h].sid + 1]
                           = block.txns[PositionOf(block.txns, h)]]_vars

\* a forced end_block has committed a block of two transactions
C3_Witness ==
    /\ resp.op = "force_end_block" /\ resp.err = ""
    /\ txn_status[TxnHandleOf(Tx("XfrA"))].st = "Committed"
    /\ txn_status[TxnHandleOf(Tx("Bar2Abar"))].st = "Committed"
    /\ txn_status[TxnHandleOf(Tx("XfrA"))].sid + 1 = txn_status[TxnHandleOf(Tx("Bar2Abar"))].sid

\* C4: a handle returned by a successful submission is Pending at once, is
\* never None again, moves only from Pending to Committed or Rejected, and
\* a Committed status keeps its TxnSID and outputs
C4_HandleLifecycle ==
    [][/\ \A t \in HttpWorkers, tx \in Txs :
             (submit_transaction(t, tx) /\ resp'.code = 200) =>
                 txn_status'[TxnHandleOf(tx)] = Pending
       /\ \A h \in Handles :
             txn_status'[h] # txn_status[h] =>
                 \/ txn_status[h] = NoStatus /\ txn_status'[h] = Pending
                 \/ txn_status[h] = Pending /\ txn_status'[h].st \in {"Committed", "Rejected"}]_vars

\* a handle committed in the first block is still Committed two blocks later
C4_Witness ==
    /\ deployment = "submission_api"
    /\ txn_status[TxnHandleOf(Tx("DefIss"))] = Committed(0, <<0, 1>>)
    /\ ledger.block_commit_count = 3

\* C5: when a DefineAsset transaction was accepted by submit_transaction, the
\* following force_end_block leaves the asset type defined in the ledger
C5_DefineAssetVisible ==
    [][\A t \in HttpWorkers :
          (force_end_block(t) /\ txn_status[TxnHandleOf(Tx("DefIss"))] = Pending) =>
              /\ resp'.code = 200
              /\ get_asset_type(ledger', "AAAA")]_vars

\* the definition was submitted at seq_id = block commit count and the block forced
C5_Witness ==
    /\ deployment = "submission_api"
    /\ resp.op = "force_end_block" /\ resp.code = 200
    /\ ledger.block_commit_count = 1
    /\ get_asset_type(ledger, "AAAA")
    /\ Tx("DefIss").seq_id = 0

\* a thread is at work on the block under construction
OnBlock(t) == pc[t] \in {"submit_transaction", "force_end_block", "commit"}

\* C6: the consensus callbacks and the HTTP force_end_block never work on the
\* block under construction at the same time, nor do two end_block calls
C6_MutualExclusion ==
    /\ \A t1, t2 \in Threads : (OnBlock(t1) /\ OnBlock(t2)) => t1 = t2
    /\ \A t \in HttpWorkers :
          pc[t] = "force_end_block" =>
              /\ serverLock.writer = t
              /\ pc["consensus"] = Idle
              /\ deployment = "submission_api"
    /\ pc["consensus"] # Idle => \A t \in HttpWorkers : pc[t] = Idle

\* one worker is inside force_end_block on a block with a pending transaction
\* while the other worker is outside
C6_Witness ==
    /\ pc["http1"] = "force_end_block"
    /\ pc["http2"] = Idle
    /\ Len(block.txns) > 0

\* C7: check_tx and the status lookup hold their lock as readers
C7_ReadersOfStoreLock ==
    /\ pc["consensus"] = "check_tx" => "consensus" \in ledgerLock.readers
    /\ \A t \in HttpWorkers : pc[t] = "txn_status" => t \in serverLock.readers

NoNullifierTwice ==
    /\ \A i, j \in 1..Len(CommittedTxns) :
          i # j => Nullifiers(CommittedTxns[i]) \cap Nullifiers(CommittedTxns[j]) = {}
    /\ ledger.nullifier_set = UNION {Nullifiers(tx) : tx \in Range(CommittedTxns)}

C9_BlockCapacity ==
    /\ [](Len(block.txns) <= BlockCapacity)
    /\ [][/\ \A tx \in Txs :
               (Len(block.txns) >= BlockCapacity /\ CacheStep(tx)) =>
                   /\ resp'.code \notin {0, 200}
                   /\ UNCHANGED <<block, txn_status, ledger>>
          /\ (EndBlockStep /\ EndBlockOk) => block' = NoBlock]_vars

\* a submission was refused at a full block
C9_Witness ==
    /\ Len(block.txns) = BlockCapacity
    /\ resp.err = "BlockFull"

C11_SubmitFailureIsLocal ==
    /\ [](deployment = "submission_api" => ~crashed)
    /\ [][\A t \in HttpWorkers, tx \in Txs :
            (submit_transaction(t, tx) /\ CacheResult(HandleBlock, ledger, tx) # "Ok") =>
                /\ resp'.code = 400
                /\ resp'.body = CacheResult(HandleBlock, ledger, tx)
                /\ resp'.body # "handle"
                /\ UNCHANGED <<txn_status, block, ledger>>
                /\ ~Holds(serverLock', t)
                /\ pc'[t] = Idle
                /\ ~crashed']_vars

\* the transfer of the non-existent TxoSID 999 was refused with 400 while the
\* block holds a pending transaction; both workers are free for the next request
C11_Witness ==
    /\ resp = Failure("submit_transaction", 400, "InputsError", "InputsError")
    /\ txn_status[TxnHandleOf(Tx("Xfr999"))] = NoStatus
    /\ block.open /\ Len(block.txns) > 0
    /\ serverLock = FreeLock
    /\ \A t \in HttpWorkers : pc[t] = Idle

\* C12: a handle has no status exactly until handle_transaction returns it:
\* a status leaves None only in the step that accepts the handle's transaction
\* (in the submission API, a submit_transaction answered 200), every accepted
\* submission leaves a status, and no status goes back to None; the txn_status
\* route answers the not-found message naming the handle exactly when the
\* status is None and the JSON text of the status otherwise
C12_StatusLookup ==
    [][/\ \A h \in Handles :
             (txn_status[h] = NoStatus /\ txn_status'[h] # NoStatus) =>
                 \E tx \in Txs :
                     /\ TxnHandleOf(tx) = h
                     /\ CacheStep(tx)
                     /\ deployment = "submission_api" =>
                            resp' = Response("submit_transaction", 200, "handle")
       /\ \A h \in Handles : txn_status[h] # NoStatus => txn_status'[h] # NoStatus
       /\ \A t \in HttpWorkers, tx \in Txs :
             (submit_transaction(t, tx) /\ resp'.code = 200) =>
                 get_txn_status(TxnHandleOf(tx))' # NoStatus
       /\ \A t \in HttpWorkers, h \in Handles :
             txn_status_route(t, h) =>
                 /\ resp'.code = 200
                 /\ (resp'.body = NotFoundMessage(h)) <=> (get_txn_status(h) = NoStatus)
                 /\ get_txn_status(h) # NoStatus =>
                        resp'.body = to_string(get_txn_status(h))]_vars

\* a lookup of a handle that was never returned got the not-found message
\* while the handle of a committed transaction has its status
C12_Witness ==
    /\ resp = Response("txn_status", 200, NotFoundMessage(TxnHandleOf(Tx("XfrB"))))
    /\ txn_status[TxnHandleOf(Tx("XfrB"))] = NoStatus
    /\ txn_status[TxnHandleOf(Tx("XfrA"))].st = "Committed"

\* C13: deliver_tx answers code 0 exactly when the bytes decode to a
\* transaction and cache_transaction appended it to the block under
\* construction; on undecodable bytes, an invalid transaction, a conflict, a
\* full block or no block it answers code 1 and the block is unchanged
C13_DeliverTxCode ==
    [][\A bytes \in Bytes :
          deliver_tx(bytes) =>
              /\ resp'.code \in {0, 1}
              /\ (resp'.code = 0) <=>
                    /\ convert_tx(bytes) # NoTx
                    /\ CacheResult(block, ledger, convert_tx(bytes)) = "Ok"
                    /\ block.open
                    /\ block' = [block EXCEPT !.txns = Append(@, convert_tx(bytes))]
              /\ (resp'.code # 0) => UNCHANGED <<block, txn_status, ledger>>
              /\ (\/ convert_tx(bytes) = NoTx
                  \/ ~compute_effect(get_prng(ledger), convert_tx(bytes)).ok
                  \/ LedgerCheck(ledger, convert_tx(bytes)) # "Ok"
                  \/ BlockCheck(block.txns, convert_tx(bytes)) # "Ok"
                  \/ Len(block.txns) >= BlockCapacity
                  \/ ~block.open) => resp'.code = 1]_vars

\* undecodable bytes were delivered into a block that holds a transaction:
\* code 1, and the block still holds just that transaction
C13_Witness ==
    /\ resp = Failure("deliver_tx", 1, "", "Deserialization")
    /\ block.open /\ Len(block.txns) = 1
    /\ txn_status[TxnHandleOf(block.txns[1])] = Pending

TransferAssetBases == {"XfrA", "XfrB", "Xfr999"}

\* C14: check_tx on a TransferAsset that consumes a TxoSID absent from the
\* committed UTXO set answers code 1 with log "Check failed", and the status of
\* that transaction never becomes Committed while the TxoSID is absent
C14_CheckTxMissingInput ==
    /\ [](txn_status[TxnHandleOf(Tx("Xfr999"))].st # "Committed")
    /\ [][\A tx \in Txs :
            (/\ check_tx(tx)
             /\ tx.base \in TransferAssetBases
             /\ ~(Inputs(tx) \subseteq ledger.utxos)) =>
                /\ resp'.code = 1
                /\ resp'.body = "Check failed"]_vars

\* an end_block that commits the block under construction
CommitsBlock == EndBlockStep /\ EndBlockOk /\ BlockApplies(ledger, block.txns)

\* C15: each committed block raises get_block_commit_count() by exactly 1 and
\* no other step changes it: not a rejected submission or delivery, a
\* check_tx, a status lookup, a commit callback, nor a force_end_block that
\* finds no pending transactions
C15_CommitCount ==
    [][/\ CommitsBlock =>
             get_block_commit_count(ledger') = get_block_commit_count(ledger) + 1
       /\ ~CommitsBlock =>
             get_block_commit_count(ledger') = get_block_commit_count(ledger)
       /\ \A t \in HttpWorkers :
             (force_end_block(t) /\ block.txns = <<>>) =>
                 /\ resp' = ForceEndBlockResponse(FALSE)
                 /\ ledger' = ledger
       /\ (\E tx \in Txs : CacheStep(tx) /\ resp'.code \notin {0, 200}) => ledger' = ledger
       /\ (\E tx \in Txs : check_tx(tx)) => ledger' = ledger
       /\ (\E t \in HttpWorkers, h \in Handles : txn_status_route(t, h)) => ledger' = ledger]_vars

\* two blocks are committed and a third force_end_block found nothing pending
C15_Witness ==
    /\ resp = ForceEndBlockResponse(FALSE)
    /\ get_block_commit_count(ledger) = 2
    /\ Len(ledger.transactions) >= 2

\* the indexes of the cache other than the staking histories
CacheIndexes(c) ==
    <<c.related_transactions, c.related_transfers, c.claim_hist_txns,
      c.coinbase_oper_hist, c.created_assets, c.issuances, c.token_code_issuances,
      c.owner_memos, c.abar_memos, c.utxos_to_map_index, c.atxos_to_map_index,
      c.txo_to_txnid, c.atxo_to_txnid, c.txn_sid_to_hash, c.txn_hash_to_sid>>

\* C16: running update_api_cache again on the same last block leaves every
\* index as the run before left it
C16_UpdateIdempotent ==
    [][replay_update => CacheIndexes(api_cache') = CacheIndexes(api_cache)]_vars

\* the committed transactions a reader finds in the store
VisibleTxnSids ==
    {sid \in 0..(Len(store.txns) - 1) : get_transaction_light_ok(store, sid)}

\* C17: with history indexing on, every committed transaction a reader can
\* see is in related_transactions under each of its related addresses
C17_CommittedHasCacheEntries ==
    (keep_hist /\ ~crashed) =>
        \A sid \in VisibleTxnSids :
            \A a \in get_related_addresses(get_transaction_light(store, sid)).related :
                <<a, sid>> \in api_cache.related_transactions

\* the related keys of an operation, as the contract gives them
RelatedKeysRule(op) ==
    CASE op.kind = "TransferAsset" ->
            {op.inputs[i].public_key : i \in 1..Len(op.inputs)}
               \cup {op.outputs[i].public_key : i \in 1..Len(op.outputs)}
      [] op.kind \in {"IssueAsset", "DefineAsset", "UpdateMemo"} -> {op.pubkey}
      [] op.kind = "BarToAbar" -> {op.inputs[1].public_key}
      [] op.kind = "AbarToBar" -> {op.outputs[1].public_key}
      [] op.kind = "TransferAnonAsset" -> {}
      [] op.kind = "ConvertAccount" -> {op.pubkey}
      [] OTHER -> op.related_pubkeys

C19_CacheFailureSwallowed ==
    last_update.result \in {"Err", "panic"} => ~crashed

\* C20: an end_block callback whose end_block fails panics: no
\* ResponseEndBlock is given, the server state is left as it was, and once
\* the node has panicked no callback, commit included, runs any more
C20_EndBlockFailureFatal ==
    [][/\ (abci_end_block /\ ~EndBlockOk) =>
             /\ crashed'
             /\ resp' # Response("end_block", 0, "")
             /\ resp'.body = "panic"
             /\ UNCHANGED <<ledger, block, txn_status, in_commit>>
       /\ (abci_end_block /\ EndBlockOk) => ~crashed'
       /\ (crashed /\ deployment = "abci_validator_node") =>
             /\ UNCHANGED vars
             /\ ~commit_begin /\ ~commit_end]_vars

\* after one committed block the host called end_block with no block under
\* construction: the node is down and the commit window never opened
C20_Witness ==
    /\ deployment = "abci_validator_node"
    /\ crashed
    /\ resp = Failure("end_block", 1, "panic", "NoBlock")
    /\ ledger.block_commit_count = 1
    /\ ~in_commit

\* the history tuples the staking engine emitted up to the last committed block
\* are in the history maps of the cache
HistoryCached ==
    \A h \in 1..Len(store.blocks) :
        /\ <<h, "rate">> \in api_cache.staking_global_rate_hist
        /\ <<<<"validator", h>>, "self">> \in api_cache.staking_self_delegation_hist
        /\ <<<<"validator", h>>, "total">> \in api_cache.staking_delegation_amount_hist
        /\ <<<<"dave", h>>, [block_height |-> h, amount |-> 1, bond |-> h]>>
              \in api_cache.staking_delegation_rwd_hist

\* C21: when a commit has ended the four history channels are empty and
\* every tuple emitted so far is in its history map
C21_ChannelsDrained ==
    /\ chan = EmptyChannels
    /\ HistoryCached

\* the finalized transactions of the store in commit order
FinalizedTxns == Flatten(store.blocks)

StrictlyIncreasing(ids) == \A i, j \in 1..Len(ids) : i < j => ids[i] < ids[j]

\* C22: TxnSIDs, TxoSIDs and ATxoSIDs are strictly increasing in assignment
\* order, within a block and across blocks, so none is assigned twice
C22_SidsMonotone ==
    /\ StrictlyIncreasing([i \in 1..Len(FinalizedTxns) |-> FinalizedTxns[i].tx_id])
    /\ StrictlyIncreasing(Flatten([i \in 1..Len(FinalizedTxns) |-> FinalizedTxns[i].txo_ids]))
    /\ StrictlyIncreasing(Flatten([i \in 1..Len(FinalizedTxns) |-> FinalizedTxns[i].atxo_ids]))

\* two blocks are committed, the first of two transactions; together they
\* hold outputs of both kinds in more than one transaction
C22_Witness ==
    /\ Len(store.blocks) = 2
    /\ Len(store.blocks[1]) = 2
    /\ Cardinality({i \in 1..Len(FinalizedTxns) : FinalizedTxns[i].txo_ids # <<>>}) >= 2
    /\ Cardinality({i \in 1..Len(FinalizedTxns) : FinalizedTxns[i].atxo_ids # <<>>}) >= 2

StakingOps(tx) == SelectSeq(tx, LAMBDA op : op.kind \in {"UpdateStaker", "Delegation"})

\* the outputs of the transparent transfers of a transaction that pay the
\* staking sink
PrincipalOutputs(tx) ==
    LET xfr == SelectSeq(tx, LAMBDA op : op.kind = "TransferAsset")
    IN SelectSeq(Flatten([i \in 1..Len(xfr) |-> xfr[i].outputs]),
                 LAMBDA o : o.public_key = BLACK_HOLE_PUBKEY_STAKING)

\* C24: a transaction sent by stake, stake_append or delegate for amount am
\* holds one staking operation (UpdateStaker for stake, Delegation for the
\* others) for am and one transfer operation with one output to
\* BLACK_HOLE_PUBKEY_STAKING, of am, amount and type not confidential; a call
\* in which building an operation fails sends nothing
C24_PrincipalTransferMatches ==
    cli.fn \in {"stake", "stake_append", "delegate"} =>
        /\ \A i \in 1..Len(sent) :
              /\ Len(sent[i]) = 2
              /\ Len(StakingOps(sent[i])) = 1
              /\ StakingOps(sent[i])[1].amount = cli.amount.value
              /\ StakingOps(sent[i])[1].kind =
                    (IF cli.fn = "stake" THEN "UpdateStaker" ELSE "Delegation")
              /\ Len(SelectSeq(sent[i], LAMBDA op : op.kind = "TransferAsset")) = 1
              /\ Len(PrincipalOutputs(sent[i])) = 1
              /\ PrincipalOutputs(sent[i])[1].amount = cli.amount.value
              /\ ~PrincipalOutputs(sent[i])[1].confidential_amount
              /\ ~PrincipalOutputs(sent[i])[1].confidential_type
        /\ Len(sent) <= 1
        /\ (cli.result # NoOutcome /\ cli.fail \in {"new_tx_builder", "staking_op", "transfer_op"})
              => sent = <<>>
        /\ cli.result = "Ok" =>
              (sent = <<>> <=> (cli.fn = "stake" /\ ~cli.heights_close /\ ~cli.force))

\* stake_append of 5 has sent its transaction: the delegation of 5, then the
\* transfer of 5 to the staking sink
C24_Witness ==
    /\ cli.fn = "stake_append" /\ cli.amount.value = 5
    /\ cli.result = "Ok"
    /\ Len(sent) = 1
    /\ sent[1][1].kind = "Delegation"
    /\ sent[1][2].kind = "TransferAsset"

\* C25: add_basic_transfer_asset on records that open returns InputsError and
\* adds nothing when a requested amount exceeds the amount of its record or
\* the requested amounts and the transfer_to amounts have different totals;
\* otherwise the transfer it adds has as outputs the transfer_to records and
\* then the change of each partially consumed input, owned by its owner, and
\* their amounts total the full amounts of the consumed records
C25_TransferPreservesAmounts ==
    (cli.fn = "add_basic_transfer_asset" /\ cli.result # NoOutcome /\ cli.env.opens) =>
        LET from == cli.transfer_from
            to == cli.transfer_to
            requested == [i \in 1..Len(from) |-> from[i].amount]
            exceeds == \E i \in 1..Len(from) : from[i].amount > from[i].oar_amount
            differs == Sum(requested) # Sum([i \in 1..Len(to) |-> to[i].amount])
        IN IF exceeds \/ differs
           THEN cli.result = "InputsError" /\ builder = NewBuilder
           ELSE builder # NewBuilder =>
                   LET outputs == builder.operations[1].outputs IN
                   /\ Len(builder.operations) = 1
                   /\ Sum([i \in 1..Len(outputs) |-> outputs[i].amount])
                         = Sum([i \in 1..Len(from) |-> from[i].oar_amount])
                   /\ SubSeq(outputs, 1, Len(to)) =
                         [i \in 1..Len(to) |->
                             AssetRecord(to[i].amount, from[1].asset_type, to[i].key)]
                   /\ SubSeq(outputs, Len(to) + 1, Len(outputs)) =
                         partially_consumed_inputs(from)

\* C26: with KEEP_HIST off, update_api_cache returns Ok and leaves every map
\* of the cache, the channels it was given and the store as they were, for
\* any last block, also one whose records the lookups would not find
C26_NoIndexingWithoutKeepHist ==
    /\ [](~keep_hist => (api_cache = NewApiCache /\ ~crashed
                          /\ last_update.result \in {"none", "Ok"}
                          /\ last_update.calls = <<>>))
    /\ [][(~keep_hist /\ replay_update) =>
             /\ api_cache' = api_cache
             /\ store' = store
             /\ chan' = chan
             /\ last_update'.result = "Ok"]_vars
    /\ [][\A txns \in CacheBlocks :
             (~keep_hist /\ commit_block(txns)) =>
                /\ api_cache' = api_cache
                /\ \E lost \in LostChoices(store, txns) :
                      store' = apply_block(store, txns, lost)
                /\ chan' = EmitHistory(chan, Len(store'.blocks))
                /\ last_update'.result = "Ok"]_vars

\* with KEEP_HIST off two blocks are committed, one output of the last block
\* cannot be looked up, and the update has run again on that block: the
\* updates returned Ok and the cache is as it was created
C26_Witness ==
    /\ ~keep_hist
    /\ Len(store.blocks) = 2
    /\ \E sid \in store.lost_utxos : sid \in Range(FinalizedTxns[Len(FinalizedTxns)].txo_ids)
    /\ last_update.replays >= 1
    /\ last_update.result = "Ok"
    /\ api_cache = NewApiCache

LastBlock == store.blocks[Len(store.blocks)]

\* C28: after an update that processed the last block with history indexing
\* on, every transaction of the block has its hash under its TxnSID in
\* txn_sid_to_hash and its TxnSID under that hash in txn_hash_to_sid
C28_SidHashInverse ==
    (keep_hist /\ store.blocks # <<>> /\ last_update.result = "Ok") =>
        \A i \in 1..Len(LastBlock) :
            LET s == LastBlock[i].tx_id IN
            /\ MapHas(api_cache.txn_sid_to_hash, s)
            /\ MapGet(api_cache.txn_sid_to_hash, s) = get_transaction_light(store, s).hash
            /\ MapHas(api_cache.txn_hash_to_sid, get_transaction_light(store, s).hash)
            /\ MapGet(api_cache.txn_hash_to_sid, get_transaction_light(store, s).hash) = s

\* C29: after an update that processed the last block with history indexing
\* on, each ATxoSID of the block is mapped to the key and the memo of the
\* anonymous output the ledger gave that id, and to its transaction
C29_AtxoMapsFollowAssignment ==
    (keep_hist /\ store.blocks # <<>> /\ last_update.result = "Ok") =>
        \A i \in 1..Len(LastBlock) :
            \A j \in 1..Len(LastBlock[i].atxo_ids) :
                LET id == LastBlock[i].atxo_ids[j] IN
                /\ <<id, store.atxos[id + 1].public_key>> \in api_cache.atxos_to_map_index
                /\ <<id, store.atxos[id + 1].memo>> \in api_cache.abar_memos
                /\ <<id, <<LastBlock[i].tx_id,
                           get_transaction_light(store, LastBlock[i].tx_id).hash>>>>
                      \in api_cache.atxo_to_txnid

\* C30: for the answer of the txn_status route to a request for handle h,
\* both clients return Ok with the server's status of h when the handle was
\* issued, and an Err when it never was
C30_ClientTxnStatus ==
    [][\A t \in HttpWorkers, h \in Handles :
          txn_status_route(t, h) =>
             \A r \in {MockLUClient_txn_status(resp'), ActixLUClient_txn_status(resp')} :
                IF get_txn_status(h) # NoStatus
                THEN r = [kind |-> "Ok", value |-> get_txn_status(h)]
                ELSE r.kind = "Err"]_vars

====
